---- MODULE Spec2Model ----
(***************************************************************************)
(* A model of backend/app/services/calculator.py (CalculatorService): the  *)
(* name parser, the two ingestion modes, the cutoff assignment engine, the *)
(* derived columns and the column order; and of upload_file in             *)
(* backend/app/api/routes/files.py, the handler that calls it.             *)
(*                                                                         *)
(* Specifications.                                                         *)
(*  - Spec: one call of process_file, statement by statement.              *)
(*  - SpecReport: the same call on inputs that tell the columns of the     *)
(*    returned table apart (units, headings, rounding ties).               *)
(*  - SpecCalls: two calls on the singleton, their statements interleaved. *)
(*  - SpecUpload: one request to upload_file; the disk and the database    *)
(*    may fail at each step that uses them.                                *)
(*                                                                         *)
(* Conventions.                                                            *)
(*  - A Python str is a sequence of one-character strings, so that the     *)
(*    regular expression and int()/str() conversions are computed.         *)
(*  - A DataFrame is [columns |-> set of column names, rows |-> sequence   *)
(*    of records]; the Cyrillic column names are transliterated:           *)
(*      name = 'Наименование изделия'   unit = 'Ед. изм.'                  *)
(*      quantity = 'Количество'         width_m = 'Ширина, м'              *)
(*      length_m = 'Длина, м'           projection_m = 'Проекция, м'       *)
(*      form_type = 'Тип формы'         cutoff = 'Отсечка'                 *)
(*      cutoff_type = 'Тип отсечки'     qty = 'Кол-во'                     *)
(*      unroll_m = 'Развертка, м'       total_area_m = 'Общая площадь, м'  *)
(*      projection_area_m = 'Площадь проекции, м'                          *)
(*  - Areas are integers in 1/10000 m2, computed exactly; the inputs hold  *)
(*    no value whose binary floating point rounding differs from this.     *)
(*  - A value in metres is an integer number of 1/10000 m, so that both    *)
(*    round(mm / 1000, 2) and int(m * 1000) are real conversions.          *)
(*  - A row also carries "index", the label it has in the DataFrame index  *)
(*    (0, 1, ... in row order).  No code reads it; it tells apart equal    *)
(*    rows and relates the rows built by assign_cutoffs to its input.      *)
(*  - The quantity column holds integers (int(row['Количество']) is then   *)
(*    the identity on it), of either sign.                                 *)
(***************************************************************************)
EXTENDS Integers, Sequences, FiniteSets, Bags, TLC

VARIABLES
    file_extension, \* process_file argument: ".txt" or ".xlsx"
    content,        \* process_file argument: the text of a TXT upload, as words
    sheet_columns,  \* the column names pd.read_excel returns for an XLSX upload
    sheet,          \* the rows pd.read_excel returns for an XLSX upload
    pc,             \* position of process_file: start, parsed, assigned, derived,
                    \* done, failed
    df,             \* the DataFrame returned by the ingestion step
    new_rows,       \* assign_cutoffs local: rows built so far (before the drop)
    cutoff_counter, \* assign_cutoffs local: next cutoff id
    result_df,      \* what assign_cutoffs returned to its caller (NoTable if nothing)
    derived_df,     \* what calculate_derived_columns returned (NoTable if nothing)
    final_df,       \* what process_file returns (NoFrame if nothing)
    error,          \* the exception process_file re-raises ("" if none)
    service,        \* calculator_service: the attributes of the singleton
    calls,          \* the locals of each of several invocations of process_file
    upload,         \* upload_file argument: the extension and text of the file
    handler_pc,     \* position of upload_file
    storage,        \* the files under STORAGE_PATH that the request wrote
    db_records,     \* the CalculationFile rows committed for the request
    response        \* the HTTP status upload_file answers with (0 if none yet)

vars == <<file_extension, content, sheet_columns, sheet, pc, df, new_rows,
          cutoff_counter, result_df, derived_df, final_df, error, service, calls,
          upload, handler_pc, storage, db_records, response>>

\* The variables of the upload handler
uploadVars == <<upload, handler_pc, storage, db_records, response>>

\* The variables of one invocation followed alone
fileVars == <<file_extension, content, sheet_columns, sheet, pc, df, new_rows,
              cutoff_counter, result_df, derived_df, final_df, error>>

\* The variables of the invocations that share the singleton
callVars == <<service, calls>>

\* ------------------------------------------------------------------ bounds
MaxTokens == 3
MaxRows == 3
MaxReportTokens == 3
MaxReportRows == 2
MaxCallTokens == 2

\* ----------------------------------------------------------- configuration
FORM_CAPACITY_1 == 15
FORM_CAPACITY_2 == 20
FORM_CAPACITY_3 == 10
CUTOFF_TYPE_1 == 8
CUTOFF_TYPE_2 == 9
CUTOFF_TYPE_3 == 10

FORM_CAPACITY == (1 :> FORM_CAPACITY_1) @@ (2 :> FORM_CAPACITY_2) @@ (3 :> FORM_CAPACITY_3)
CUTOFF_TYPES == (1 :> CUTOFF_TYPE_1) @@ (2 :> CUTOFF_TYPE_2) @@ (3 :> CUTOFF_TYPE_3)

\* calculator_service = CalculatorService(): what __init__ stores on it
CalculatorService == [FORM_CAPACITY |-> FORM_CAPACITY, CUTOFF_TYPES |-> CUTOFF_TYPES]

\* A DataFrame; NoTable stands for "nothing was returned" (the call raised).
Table(columns, rows) == [none |-> FALSE, columns |-> columns, rows |-> rows]
NoTable == [none |-> TRUE, columns |-> {}, rows |-> <<>>]

\* A DataFrame with the order of its columns: columns is a sequence.
Frame(columns, rows) == [none |-> FALSE, columns |-> columns, rows |-> rows]
NoFrame == [none |-> TRUE, columns |-> <<>>, rows |-> <<>>]

\* -------------------------------------------------------------- characters
Digit == {"0", "1", "2", "3", "4", "5", "6", "7", "8", "9"}
Letter == {"a", "b", "c", "d", "e", "f", "g", "h", "i", "j", "k", "l", "m",
           "n", "o", "p", "q", "r", "s", "t", "u", "v", "w", "x", "y", "z"}
\* \w of the re module, on the ASCII range
WordChar == Letter \cup Digit \cup {"_"}

DigitVal(c) ==
    CASE c = "0" -> 0 [] c = "1" -> 1 [] c = "2" -> 2 [] c = "3" -> 3
      [] c = "4" -> 4 [] c = "5" -> 5 [] c = "6" -> 6 [] c = "7" -> 7
      [] c = "8" -> 8 [] c = "9" -> 9

DigitChar(d) ==
    CASE d = 0 -> "0" [] d = 1 -> "1" [] d = 2 -> "2" [] d = 3 -> "3"
      [] d = 4 -> "4" [] d = 5 -> "5" [] d = 6 -> "6" [] d = 7 -> "7"
      [] d = 8 -> "8" [] d = 9 -> "9"

\* int(s) of a non-empty string of decimal digits
RECURSIVE StrToInt(_)
StrToInt(s) ==
    IF Len(s) = 0 THEN 0
    ELSE 10 * StrToInt(SubSeq(s, 1, Len(s) - 1)) + DigitVal(s[Len(s)])

\* str(n) of a non-negative int, as an f-string formats it
RECURSIVE IntToStr(_)
IntToStr(n) ==
    IF n < 10 THEN <<DigitChar(n)>>
    ELSE IntToStr(n \div 10) \o <<DigitChar(n % 10)>>

\* ------------------------------------------------------------- name parser
\* End of the longest run of digits of s that starts at i (i - 1 if none):
\* what a greedy \d+ consumes.
RECURSIVE DigitRunEnd(_, _)
DigitRunEnd(s, i) ==
    IF i <= Len(s) /\ s[i] \in Digit THEN DigitRunEnd(s, i + 1) ELSE i - 1

At(s, i, c) == i <= Len(s) /\ s[i] = c

\* The part _(\d+)x(\d+)x(\d+)_(\d+) of the pattern, tried right after a
\* name that ends at position k.  Each \d+ is followed by a literal that is
\* no digit (or by nothing), so only its longest run can match.  WidthEnd,
\* LengthEnd, ProjectionEnd and FormTypeEnd are where the four runs end.
WidthEnd(s, k) == DigitRunEnd(s, k + 2)
LengthEnd(s, k) == DigitRunEnd(s, WidthEnd(s, k) + 2)
ProjectionEnd(s, k) == DigitRunEnd(s, LengthEnd(s, k) + 2)
FormTypeEnd(s, k) == DigitRunEnd(s, ProjectionEnd(s, k) + 2)

TailMatches(s, k) ==
    /\ At(s, k + 1, "_")
    /\ WidthEnd(s, k) >= k + 2
    /\ At(s, WidthEnd(s, k) + 1, "x")
    /\ LengthEnd(s, k) >= WidthEnd(s, k) + 2
    /\ At(s, LengthEnd(s, k) + 1, "x")
    /\ ProjectionEnd(s, k) >= LengthEnd(s, k) + 2
    /\ At(s, ProjectionEnd(s, k) + 1, "_")
    /\ FormTypeEnd(s, k) >= ProjectionEnd(s, k) + 2

\* The name ends at k: (\w+) consumed s[1..k] and the rest of the pattern
\* matches after it.
NameEnds(s) ==
    {k \in 1..Len(s) : (\A i \in 1..k : s[i] \in WordChar) /\ TailMatches(s, k)}

SetMax(S) == CHOOSE m \in S : \A n \in S : n <= m

\* The groups of the match whose name ends at k.
Groups(s, k) ==
    [matched |-> TRUE,
     name |-> SubSeq(s, 1, k),
     width |-> SubSeq(s, k + 2, WidthEnd(s, k)),
     length |-> SubSeq(s, WidthEnd(s, k) + 2, LengthEnd(s, k)),
     projection |-> SubSeq(s, LengthEnd(s, k) + 2, ProjectionEnd(s, k)),
     form_type |-> SubSeq(s, ProjectionEnd(s, k) + 2, FormTypeEnd(s, k)),
     end |-> FormTypeEnd(s, k)]

\* re.match(r'(\w+)_(\d+)x(\d+)x(\d+)_(\d+)', item_name): anchored at the
\* start of the string only; the greedy \w+ gives up characters from its
\* longest run, so the match found is the one with the longest name.
ReMatch(s) ==
    IF NameEnds(s) = {} THEN [matched |-> FALSE]
    ELSE Groups(s, SetMax(NameEnds(s)))

\* parse_item_name that reads the length from the projection group and the
\* projection from the length group
ParseItemNameSwapped(item_name) ==
    LET match == ReMatch(item_name)
    IN  IF ~match.matched THEN [error |-> "ValueError"]
        ELSE [error |-> "",
              name |-> match.name,
              width_mm |-> StrToInt(match.width),
              length_mm |-> StrToInt(match.projection),
              projection_mm |-> StrToInt(match.length),
              form_type |-> StrToInt(match.form_type)]

parse_item_name(item_name) ==
    LET match == ReMatch(item_name)
    IN  IF ~match.matched THEN [error |-> "ValueError"]
        ELSE [error |-> "",
              name |-> match.name,
              width_mm |-> StrToInt(match.width),
              length_mm |-> StrToInt(match.length),
              projection_mm |-> StrToInt(match.projection),
              form_type |-> StrToInt(match.form_type)]

\* --------------------------------------------------------------- ingestion
\* round(v, 2) of a non-negative value in metres (v in 1/10000 m): the
\* nearest multiple of 0.01, a tie going to the even one.  (On binary floats
\* a decimal tie is rarely an exact tie; the inputs below hold none.)
Round2(v) ==
    LET q == v \div 100
        r == v % 100
    IN  IF r < 50 THEN 100 * q
        ELSE IF r > 50 THEN 100 * (q + 1)
        ELSE IF q % 2 = 0 THEN 100 * q ELSE 100 * (q + 1)

\* mm / 1000, in 1/10000 m
MmToM(mm) == 10 * mm

\* int(m * 1000): millimetres, truncated (m >= 0)
MToMm(m) == m \div 10

IngestColumns ==
    {"name", "unit", "quantity", "width_m", "length_m", "projection_m",
     "form_type", "width_mm", "length_mm"}

NewLine == <<"\n">>

\* content.strip().split('\n'), each line .strip().split(), all parts
\* appended to items: the words of the text in order, line breaks gone.
RECURSIVE SplitItems(_)
SplitItems(text) ==
    IF Len(text) = 0 THEN <<>>
    ELSE IF Head(text) = NewLine THEN SplitItems(Tail(text))
    ELSE <<Head(text)>> \o SplitItems(Tail(text))

\* The keys of item_counts in insertion order (a dict keeps the order in
\* which its keys were first set).
RECURSIVE CountKeys(_)
CountKeys(items) ==
    IF Len(items) = 0 THEN <<>>
    ELSE LET init == CountKeys(SubSeq(items, 1, Len(items) - 1))
             last == items[Len(items)]
         IN  IF \E i \in 1..Len(init) : init[i] = last THEN init
             ELSE Append(init, last)

\* ItemCount with item_counts.get(item, 1) for item_counts.get(item, 0)
ItemCountFromOne(items, item) ==
    Cardinality({i \in 1..Len(items) : items[i] = item}) + 1

\* item_counts[item]
ItemCount(items, item) == Cardinality({i \in 1..Len(items) : items[i] = item})

TxtRecord(parsed, count, index) ==
    [index |-> index,
     name |-> parsed.name \o <<"_">> \o IntToStr(parsed.width_mm) \o <<"x">>
                \o IntToStr(parsed.length_mm),
     unit |-> "sht.",
     quantity |-> count,
     width_m |-> Round2(MmToM(parsed.width_mm)),
     length_m |-> Round2(MmToM(parsed.length_mm)),
     projection_m |-> Round2(MmToM(parsed.projection_mm)),
     form_type |-> parsed.form_type,
     width_mm |-> parsed.width_mm,
     length_mm |-> parsed.length_mm]

\* The loop over item_counts.items(): data after the keys [1..n] were
\* handled, or the ValueError of the first key that does not parse.
RECURSIVE TxtData(_, _, _)
TxtData(items, keys, n) ==
    IF n = 0 THEN [error |-> "", data |-> <<>>]
    ELSE LET before == TxtData(items, keys, n - 1)
             parsed == parse_item_name(keys[n])
         IN  IF before.error # "" THEN before
             ELSE IF parsed.error # "" THEN [error |-> parsed.error, data |-> <<>>]
             ELSE [error |-> "",
                   data |-> Append(before.data,
                                   TxtRecord(parsed, ItemCount(items, keys[n]), n - 1))]

parse_txt_file(text) ==
    LET items == SplitItems(text)
        keys == CountKeys(items)
        r == TxtData(items, keys, Len(keys))
    IN  IF r.error # "" THEN [error |-> r.error, df |-> NoTable]
        ELSE [error |-> "",
              df |-> Table(IF Len(r.data) = 0 THEN {} ELSE IngestColumns, r.data)]

XlsxRecord(row, index) ==
    [index |-> index, name |-> row.name, unit |-> row.unit, quantity |-> row.quantity,
     width_m |-> row.width_m, length_m |-> row.length_m,
     projection_m |-> row.projection_m, form_type |-> row.form_type,
     width_mm |-> MToMm(row.width_m), length_mm |-> MToMm(row.length_m)]

\* df.rename(columns={'Кол-во': 'Количество'}) ("qty" stands for 'Кол-во';
\* a sheet holds one of the two headings, never both)
RenameColumns(columns) ==
    (columns \ {"qty"}) \cup (IF "qty" \in columns THEN {"quantity"} ELSE {})

RenameRow(row) ==
    [c \in RenameColumns(DOMAIN row) |->
        IF c = "quantity" /\ "qty" \in DOMAIN row THEN row.qty ELSE row[c]]

\* The columns the selection df[[...]] names that come from the sheet
SelectedSheetColumns == IngestColumns \ {"width_mm", "length_mm"}

\* df['width_mm'] = ... and df['length_mm'] = ... raise KeyError when the
\* metre column is missing; the selection df[[...]] raises KeyError when any
\* of its columns is missing, and keeps no other column.
parse_xlsx_file(columns, rows) ==
    IF ~({"width_m", "length_m"} \subseteq RenameColumns(columns))
    THEN [error |-> "KeyError", df |-> NoTable]
    ELSE IF ~(SelectedSheetColumns \subseteq RenameColumns(columns))
    THEN [error |-> "KeyError", df |-> NoTable]
    ELSE [error |-> "",
          df |-> Table(IngestColumns,
                       [i \in 1..Len(rows) |-> XlsxRecord(RenameRow(rows[i]), i - 1)])]

\* ------------------------------------------------------- cutoff assignment
\* Row a sorts strictly before row b under
\* by = [form_type, width_mm, length_m], ascending = [True, True, False].
SortsBefore(a, b) ==
    \/ a.form_type < b.form_type
    \/ a.form_type = b.form_type /\ a.width_mm < b.width_mm
    \/ a.form_type = b.form_type /\ a.width_mm = b.width_mm /\ a.length_m > b.length_m

\* sort_values whose result is not kept: the frame stays in input order
SortValuesDiscarded(rows) == rows

\* DataFrame.sort_values on several columns is a stable sort: rows that tie
\* on all three keys keep the order they had.
RECURSIVE sort_values(_)
sort_values(rows) ==
    IF Len(rows) = 0 THEN <<>>
    ELSE LET init == sort_values(SubSeq(rows, 1, Len(rows) - 1))
             last == rows[Len(rows)]
             n == Cardinality({i \in 1..Len(init) : ~SortsBefore(last, init[i])})
         IN  SubSeq(init, 1, n) \o <<last>> \o SubSeq(init, n + 1, Len(init))

GroupKey(row) == <<row.form_type, row.width_mm>>

KeyLess(j, k) == j[1] < k[1] \/ (j[1] = k[1] /\ j[2] < k[2])

\* SortedKeys with the keys in descending order
RECURSIVE SortedKeysDescending(_)
SortedKeysDescending(keys) ==
    IF keys = {} THEN <<>>
    ELSE LET greatest == CHOOSE k \in keys : \A j \in keys : ~KeyLess(k, j)
         IN  <<greatest>> \o SortedKeysDescending(keys \ {greatest})

\* The group keys in ascending order (groupby sorts its keys).
RECURSIVE SortedKeys(_)
SortedKeys(keys) ==
    IF keys = {} THEN <<>>
    ELSE LET least == CHOOSE k \in keys : \A j \in keys : ~KeyLess(j, k)
         IN  <<least>> \o SortedKeys(keys \ {least})

\* RowsWithKey that hands the rows of a group over in reverse order
RECURSIVE RowsWithKeyReversed(_, _)
RowsWithKeyReversed(rows, key) ==
    IF Len(rows) = 0 THEN <<>>
    ELSE IF GroupKey(Head(rows)) = key
         THEN RowsWithKeyReversed(Tail(rows), key) \o <<Head(rows)>>
         ELSE RowsWithKeyReversed(Tail(rows), key)

RECURSIVE RowsWithKey(_, _)
RowsWithKey(rows, key) ==
    IF Len(rows) = 0 THEN <<>>
    ELSE IF GroupKey(Head(rows)) = key
         THEN <<Head(rows)>> \o RowsWithKey(Tail(rows), key)
         ELSE RowsWithKey(Tail(rows), key)

\* df.groupby([form_type, width_mm]): one group per key, keys ascending, the
\* rows of a group in the order they have in df.
groupby(rows) ==
    LET keys == SortedKeys({GroupKey(rows[i]) : i \in 1..Len(rows)})
    IN  [g \in 1..Len(keys) |-> [key |-> keys[g], rows |-> RowsWithKey(rows, keys[g])]]

\* PackLoop without line 163: the running total is not reset to the count
\* of the row that opens a subgroup.
RECURSIVE PackLoopNoReset(_, _, _)
PackLoopNoReset(group, capacity, n) ==
    IF n = 0 THEN [subgroups |-> <<>>, current_subgroup |-> <<>>, current_total |-> 0]
    ELSE LET s == PackLoopNoReset(group, capacity, n - 1)
             row == group[n]
             count == row.quantity
         IN  IF s.current_total + count > capacity
             THEN [subgroups |-> IF Len(s.current_subgroup) > 0
                                 THEN Append(s.subgroups, s.current_subgroup)
                                 ELSE s.subgroups,
                   current_subgroup |-> <<row>>,
                   current_total |-> s.current_total]
             ELSE [subgroups |-> s.subgroups,
                   current_subgroup |-> Append(s.current_subgroup, row),
                   current_total |-> s.current_total + count]

\* PackLoop without the test of line 160: the open subgroup is appended to
\* subgroups even when it is empty.
RECURSIVE PackLoopNoGuard(_, _, _)
PackLoopNoGuard(group, capacity, n) ==
    IF n = 0 THEN [subgroups |-> <<>>, current_subgroup |-> <<>>, current_total |-> 0]
    ELSE LET s == PackLoopNoGuard(group, capacity, n - 1)
             row == group[n]
             count == row.quantity
         IN  IF s.current_total + count > capacity
             THEN [subgroups |-> Append(s.subgroups, s.current_subgroup),
                   current_subgroup |-> <<row>>,
                   current_total |-> count]
             ELSE [subgroups |-> s.subgroups,
                   current_subgroup |-> Append(s.current_subgroup, row),
                   current_total |-> s.current_total + count]

\* PackLoop that tests the capacity after it appended the row: the row that
\* overflows the subgroup is its last row, not the first of the next one.
RECURSIVE PackLoopCheckAfter(_, _, _)
PackLoopCheckAfter(group, capacity, n) ==
    IF n = 0 THEN [subgroups |-> <<>>, current_subgroup |-> <<>>, current_total |-> 0]
    ELSE LET s == PackLoopCheckAfter(group, capacity, n - 1)
             row == group[n]
             count == row.quantity
         IN  IF s.current_total + count > capacity
             THEN [subgroups |-> Append(s.subgroups, Append(s.current_subgroup, row)),
                   current_subgroup |-> <<>>,
                   current_total |-> 0]
             ELSE [subgroups |-> s.subgroups,
                   current_subgroup |-> Append(s.current_subgroup, row),
                   current_total |-> s.current_total + count]

\* PackLoop that looks back: a row that fits into a subgroup closed earlier
\* is appended to the first such subgroup.
RECURSIVE PackLoopFirstFit(_, _, _)
PackLoopFirstFit(group, capacity, n) ==
    IF n = 0 THEN [subgroups |-> <<>>, current_subgroup |-> <<>>, current_total |-> 0]
    ELSE LET s == PackLoopFirstFit(group, capacity, n - 1)
             row == group[n]
             count == row.quantity
             total(k) == LET sub == s.subgroups[k]
                             sum[m \in 0..Len(sub)] ==
                                 IF m = 0 THEN 0 ELSE sum[m - 1] + sub[m].quantity
                         IN  sum[Len(sub)]
             fits == {k \in 1..Len(s.subgroups) : total(k) + count <= capacity}
         IN  IF fits # {}
             THEN [s EXCEPT !.subgroups[CHOOSE k \in fits : \A j \in fits : k <= j]
                                = Append(@, row)]
             ELSE IF s.current_total + count > capacity
             THEN [subgroups |-> IF Len(s.current_subgroup) > 0
                                 THEN Append(s.subgroups, s.current_subgroup)
                                 ELSE s.subgroups,
                   current_subgroup |-> <<row>>,
                   current_total |-> count]
             ELSE [subgroups |-> s.subgroups,
                   current_subgroup |-> Append(s.current_subgroup, row),
                   current_total |-> s.current_total + count]

\* The loop over group.iterrows(), after its first n rows.
RECURSIVE PackLoop(_, _, _)
PackLoop(group, capacity, n) ==
    IF n = 0 THEN [subgroups |-> <<>>, current_subgroup |-> <<>>, current_total |-> 0]
    ELSE LET s == PackLoop(group, capacity, n - 1)
             row == group[n]
             count == row.quantity
         IN  IF s.current_total + count > capacity
             THEN [subgroups |-> IF Len(s.current_subgroup) > 0
                                 THEN Append(s.subgroups, s.current_subgroup)
                                 ELSE s.subgroups,
                   current_subgroup |-> <<row>>,
                   current_total |-> count]
             ELSE [subgroups |-> s.subgroups,
                   current_subgroup |-> Append(s.current_subgroup, row),
                   current_total |-> s.current_total + count]

\* Subgroups without lines 168-169: the subgroup still open when the loop
\* ends is not appended.
SubgroupsNoFlush(group, capacity) == PackLoop(group, capacity, Len(group)).subgroups

\* subgroups once the loop is over and the open subgroup is appended
Subgroups(group, capacity) ==
    LET s == PackLoop(group, capacity, Len(group))
    IN  IF Len(s.current_subgroup) > 0 THEN Append(s.subgroups, s.current_subgroup)
        ELSE s.subgroups

\* MaxLengthIdx that keeps the last index of a maximum
MaxLengthIdxLast(subgroup) ==
    CHOOSE i \in 1..Len(subgroup) :
        /\ \A j \in 1..Len(subgroup) : subgroup[j].length_m <= subgroup[i].length_m
        /\ \A j \in (i + 1)..Len(subgroup) : subgroup[j].length_m < subgroup[i].length_m

\* max(range(len(subgroup)), key=length_m): the first index of a maximum
MaxLengthIdx(subgroup) ==
    CHOOSE i \in 1..Len(subgroup) :
        /\ \A j \in 1..Len(subgroup) : subgroup[j].length_m <= subgroup[i].length_m
        /\ \A j \in 1..(i - 1) : subgroup[j].length_m < subgroup[i].length_m

AssignedRow(row, cutoff, cutoff_type) ==
    [c \in DOMAIN row \cup {"cutoff", "cutoff_type"} |->
        IF c = "cutoff" THEN cutoff
        ELSE IF c = "cutoff_type" THEN cutoff_type
        ELSE row[c]]

SubgroupRows(subgroup, counter, cutoff_type) ==
    LET max_length_idx == MaxLengthIdx(subgroup)
    IN  [i \in 1..Len(subgroup) |->
            AssignedRow(subgroup[i], counter,
                        IF i = max_length_idx THEN 0 ELSE cutoff_type)]

\* The loop over the subgroups of one group, after its first n subgroups.
RECURSIVE SubgroupLoop(_, _, _, _)
SubgroupLoop(subgroups, cutoff_type, start, n) ==
    IF n = 0 THEN start
    ELSE LET s == SubgroupLoop(subgroups, cutoff_type, start, n - 1)
         IN  [error |-> "",
              new_rows |-> s.new_rows
                             \o SubgroupRows(subgroups[n], s.cutoff_counter, cutoff_type),
              cutoff_counter |-> s.cutoff_counter + 1]

\* GroupLoop that passes over a group whose form type is no key of
\* FORM_CAPACITY instead of raising.
RECURSIVE GroupLoopSkip(_, _)
GroupLoopSkip(groups, n) ==
    IF n = 0 THEN [error |-> "", new_rows |-> <<>>, cutoff_counter |-> 1]
    ELSE LET s == GroupLoopSkip(groups, n - 1)
             form_type == groups[n].key[1]
         IN  IF form_type \notin DOMAIN FORM_CAPACITY THEN s
             ELSE LET subgroups == Subgroups(groups[n].rows, FORM_CAPACITY[form_type])
                  IN  SubgroupLoop(subgroups, CUTOFF_TYPES[form_type], s,
                                   Len(subgroups))

\* The loop over the groups, after its first n groups; a form type that is
\* no key of FORM_CAPACITY raises KeyError and ends the loop.
RECURSIVE GroupLoop(_, _)
GroupLoop(groups, n) ==
    IF n = 0 THEN [error |-> "", new_rows |-> <<>>, cutoff_counter |-> 1]
    ELSE LET s == GroupLoop(groups, n - 1)
             form_type == groups[n].key[1]
         IN  IF s.error # "" THEN s
             ELSE IF form_type \notin DOMAIN FORM_CAPACITY
                  THEN [s EXCEPT !.error = "KeyError"]
             ELSE LET subgroups == Subgroups(groups[n].rows, FORM_CAPACITY[form_type])
                  IN  SubgroupLoop(subgroups, CUTOFF_TYPES[form_type], s,
                                   Len(subgroups))

\* A row of the returned frame: the dict of new_rows without the two
\* millimetre columns (and without the index label, which a dict never had).
DropMm(row) == [c \in DOMAIN row \ {"width_mm", "length_mm", "index"} |-> row[c]]

\* pd.DataFrame(new_rows).drop(['width_mm', 'length_mm'], axis=1, errors='ignore')
DroppedTable(rows) ==
    Table(IF Len(rows) = 0 THEN {}
          ELSE (IngestColumns \cup {"cutoff", "cutoff_type"}) \ {"width_mm", "length_mm"},
          [i \in 1..Len(rows) |-> DropMm(rows[i])])

\* assign_cutoffs(d): the locals when it ends and what it returns.  Sorting
\* a frame that lacks a sort column raises KeyError.
assign_cutoffs(d) ==
    IF ~({"form_type", "width_mm", "length_m"} \subseteq d.columns)
    THEN [error |-> "KeyError", new_rows |-> <<>>, cutoff_counter |-> 0,
          result |-> NoTable]
    ELSE LET groups == groupby(sort_values(d.rows))
             s == GroupLoop(groups, Len(groups))
         IN  [error |-> s.error, new_rows |-> s.new_rows,
              cutoff_counter |-> s.cutoff_counter,
              result |-> IF s.error # "" THEN NoTable ELSE DroppedTable(s.new_rows)]

\* --------------------------------------------------------- derived columns
\* v rounded to a multiple of d, ties to the even multiple
RoundHalfEven(v, d) ==
    LET q == v \div d
        r == v % d
    IN  IF 2 * r < d THEN q * d
        ELSE IF 2 * r > d THEN (q + 1) * d
        ELSE IF q % 2 = 0 THEN q * d ELSE (q + 1) * d

\* round(x, 2) of a product of two metre values: v is in 1/10^8 m2, the
\* result in 1/10^4 m2.
Round2Product(v) == RoundHalfEven(v, 1000000) \div 10000

\* round(df['Ширина, м'] * df['Длина, м'], 2)
Unroll(row) == Round2Product(row.width_m * row.length_m)

\* TotalArea computed from the product that was not rounded
TotalAreaUnrounded(row, unroll) ==
    Round2Product(row.width_m * row.length_m * row.quantity)

\* round(df['Развертка, м'] * df['Количество'], 2)
TotalArea(row, unroll) == Round2(unroll * row.quantity)

\* round(df['Длина, м'] * df['Проекция, м'] * df['Количество'], 2)
ProjectionArea(row) == Round2Product(row.length_m * row.projection_m * row.quantity)

DerivedColumns == {"unroll_m", "total_area_m", "projection_area_m"}

DerivedRow(row) ==
    [c \in DOMAIN row \cup DerivedColumns |->
        IF c = "unroll_m" THEN Unroll(row)
        ELSE IF c = "total_area_m" THEN TotalArea(row, Unroll(row))
        ELSE IF c = "projection_area_m" THEN ProjectionArea(row)
        ELSE row[c]]

\* calculate_derived_columns(d); reading a column the frame lacks (the
\* frame built from no rows has no columns) raises KeyError.
calculate_derived_columns(d) ==
    IF ~({"width_m", "length_m", "quantity", "projection_m"} \subseteq d.columns)
    THEN [error |-> "KeyError", df |-> NoTable]
    ELSE [error |-> "",
          df |-> Table(d.columns \cup DerivedColumns,
                       [i \in 1..Len(d.rows) |-> DerivedRow(d.rows[i])])]

\* The list of reorder_columns
ReportColumns ==
    <<"name", "unit", "quantity", "width_m", "length_m", "unroll_m", "total_area_m",
      "projection_m", "projection_area_m", "form_type", "cutoff", "cutoff_type">>

Range(f) == {f[i] : i \in DOMAIN f}

\* reorder_columns that returns the frame as it came: the columns of the
\* sheet, then the cutoff columns, then the derived ones
ReorderColumnsSkipped(d) ==
    [error |-> "",
     df |-> Frame(<<"name", "unit", "quantity", "width_m", "length_m", "projection_m",
                    "form_type", "cutoff", "cutoff_type", "unroll_m", "total_area_m",
                    "projection_area_m">>,
                  d.rows)]

\* reorder_columns(d): the selection df[[...]]
reorder_columns(d) ==
    IF ~(Range(ReportColumns) \subseteq d.columns)
    THEN [error |-> "KeyError", df |-> NoFrame]
    ELSE [error |-> "",
          df |-> Frame(ReportColumns,
                       [i \in 1..Len(d.rows) |->
                           [c \in Range(ReportColumns) |-> d.rows[i][c]]])]

\* ------------------------------------------------------------------ inputs
Tok(name, width, length, projection, form_type) ==
    name \o <<"_">> \o width \o <<"x">> \o length \o <<"x">> \o projection
         \o <<"_">> \o form_type

Tray(width, length, form_type) == Tok(<<"t">>, width, length, <<"5", "0">>, form_type)

WellFormedTokens ==
    {Tray(<<"5", "0", "0">>, <<"3", "0", "0">>, <<"1">>),
     Tray(<<"5", "0", "0">>, <<"2", "0", "0">>, <<"1">>),
     Tray(<<"5", "0", "0">>, <<"3", "0", "4">>, <<"1">>),
     Tray(<<"6", "0", "0">>, <<"3", "0", "0">>, <<"3">>),
     Tray(<<"0", "5", "0", "0">>, <<"3", "0", "0">>, <<"1">>),
     Tok(<<"t", "_", "2">>, <<"5", "0", "0">>, <<"3", "0", "0">>, <<"5", "0">>, <<"1">>),
     Tok(<<"p">>, <<"1", "0", "0">>, <<"2", "0", "0">>, <<"3", "0">>, <<"4">>)}

\* wrong separators; characters after the form type; characters before the name
OtherTokens ==
    {<<"p", "-", "1", "0", "0", "x", "2", "0", "0", "x", "3", "0", "-", "1">>,
     Tray(<<"5", "0", "0">>, <<"3", "0", "0">>, <<"1">>) \o <<"-">>,
     <<"-">> \o Tray(<<"5", "0", "0">>, <<"3", "0", "0">>, <<"1">>)}

Words == WellFormedTokens \cup OtherTokens \cup {NewLine}

SheetRow(quantity, width_m, length_m, form_type) ==
    [name |-> <<"p">>, unit |-> "sht.", quantity |-> quantity, width_m |-> width_m,
     length_m |-> length_m, projection_m |-> 500, form_type |-> form_type]

SheetRows ==
    {SheetRow(q, 5000, l, 3) : q \in {4, 7, 11}, l \in {3000, 2000}}
      \cup {SheetRow(4, 5005, 3000, 3), SheetRow(7, 6000, 3000, 3)}
      \cup {SheetRow(q, 5000, 3000, 1) : q \in {4, 11}}
      \cup {SheetRow(4, 5000, 3000, 0), SheetRow(4, 5000, 3000, 4)}
      \cup {SheetRow(0, 5000, 3000, 3), SheetRow(-3, 5000, 3000, 3)}

SeqsUpTo(S, n) == UNION {[1..m -> S] : m \in 0..n}

\* The headings of a sheet that has every column the selection names
SheetColumns == SelectedSheetColumns

\* Inputs of the report: identifiers whose metre values differ from their
\* millimetres, sheets with and without each column, rows with their own
\* unit, and areas that fall on a rounding tie.
ReportTokens ==
    {Tok(<<"t">>, <<"5", "0", "4">>, <<"1", "5", "0", "0">>, <<"4", "0">>, <<"1">>),
     Tray(<<"5", "0", "0">>, <<"3", "0", "0">>, <<"1">>),
     Tray(<<"6", "0", "0">>, <<"3", "0", "0">>, <<"3">>)}

ReportWords == ReportTokens \cup {NewLine}

ReportRow(unit, quantity, width_m, length_m, form_type) ==
    [name |-> <<"p">>, unit |-> unit, quantity |-> quantity, qty |-> quantity,
     width_m |-> width_m, length_m |-> length_m, projection_m |-> 500,
     form_type |-> form_type, note |-> "n"]

ReportRows ==
    {ReportRow("sht.", 7, 5500, 3500, 1),
     ReportRow("m", 3, 5000, 2500, 1),
     ReportRow("sht.", 3, 5000, 7500, 3),
     ReportRow("m", 2, 5005, 120000, 3)}

\* The five columns of quantity, width, length, projection and form type
FiveColumns == {"quantity", "width_m", "length_m", "projection_m", "form_type"}

ReportColumnSets ==
    {SheetColumns, (SheetColumns \ {"quantity"}) \cup {"qty"},
     SheetColumns \cup {"note"}, FiveColumns}
      \cup {SheetColumns \ {c} : c \in SheetColumns}

Restrict(row, columns) == [c \in columns |-> row[c]]

\* ----------------------------------------------------------- state machine
\* No request is being handled
NoUpload ==
    /\ upload = [file_extension |-> "", content |-> <<>>, sheet_columns |-> {},
                 sheet |-> <<>>]
    /\ handler_pc = "idle"
    /\ storage = {}
    /\ db_records = {}
    /\ response = 0

Init ==
    /\ file_extension \in {".txt", ".xlsx", ".csv"}
    /\ content \in IF file_extension = ".txt" THEN SeqsUpTo(Words, MaxTokens) ELSE {<<>>}
    /\ sheet_columns = IF file_extension = ".xlsx" THEN SheetColumns ELSE {}
    /\ sheet \in IF file_extension = ".xlsx" THEN SeqsUpTo(SheetRows, MaxRows) ELSE {<<>>}
    /\ pc = "start"
    /\ df = NoTable
    /\ new_rows = <<>>
    /\ cutoff_counter = 0
    /\ result_df = NoTable
    /\ derived_df = NoTable
    /\ final_df = NoFrame
    /\ error = ""
    /\ service = CalculatorService
    /\ calls = <<>>
    /\ NoUpload

\* The same call of process_file, on the inputs of the report
InitReport ==
    /\ file_extension \in {".txt", ".xlsx", ".csv"}
    /\ content \in IF file_extension = ".txt" THEN SeqsUpTo(ReportWords, MaxReportTokens)
                   ELSE {<<>>}
    /\ sheet_columns \in IF file_extension = ".xlsx" THEN ReportColumnSets ELSE {{}}
    /\ sheet \in IF file_extension = ".xlsx"
                 THEN {[i \in 1..Len(r) |-> Restrict(r[i], sheet_columns)] :
                          r \in SeqsUpTo(ReportRows, MaxReportRows)}
                 ELSE {<<>>}
    /\ pc = "start"
    /\ df = NoTable
    /\ new_rows = <<>>
    /\ cutoff_counter = 0
    /\ result_df = NoTable
    /\ derived_df = NoTable
    /\ final_df = NoFrame
    /\ error = ""
    /\ service = CalculatorService
    /\ calls = <<>>
    /\ NoUpload

\* process_file, '.txt' branch: df = self.parse_txt_file(content)
ParseTxtFile ==
    /\ pc = "start"
    /\ file_extension = ".txt"
    /\ LET r == parse_txt_file(content)
       IN  /\ pc' = IF r.error # "" THEN "failed" ELSE "parsed"
           /\ df' = r.df
           /\ error' = r.error
    /\ UNCHANGED <<file_extension, content, sheet_columns, sheet, new_rows,
                   cutoff_counter, result_df, derived_df, final_df>>
    /\ UNCHANGED <<callVars, uploadVars>>

\* process_file, '.xlsx' branch: df = self.parse_xlsx_file(file_path)
ParseXlsxFile ==
    /\ pc = "start"
    /\ file_extension = ".xlsx"
    /\ LET r == parse_xlsx_file(sheet_columns, sheet)
       IN  /\ pc' = IF r.error # "" THEN "failed" ELSE "parsed"
           /\ df' = r.df
           /\ error' = r.error
    /\ UNCHANGED <<file_extension, content, sheet_columns, sheet, new_rows,
                   cutoff_counter, result_df, derived_df, final_df>>
    /\ UNCHANGED <<callVars, uploadVars>>

\* process_file, else branch: raise ValueError
UnsupportedExtension ==
    /\ pc = "start"
    /\ file_extension \notin {".txt", ".xlsx"}
    /\ pc' = "failed"
    /\ error' = "ValueError"
    /\ UNCHANGED <<file_extension, content, sheet_columns, sheet, df, new_rows,
                   cutoff_counter, result_df, derived_df, final_df>>
    /\ UNCHANGED <<callVars, uploadVars>>

\* CallerFrame with df.sort_values(..., inplace=True): the frame the caller
\* passed is the one that is sorted
CallerFrameSortedInPlace(d) == Table(d.columns, sort_values(d.rows))

\* The frame the caller passed to assign_cutoffs, after the call:
\* sort_values returns a new frame that the local name df is bound to, the
\* loop works on group.copy(), and the cutoff columns are set on
\* row.to_dict(), so nothing is written to the frame that was passed.
CallerFrame(d) == d

\* process_file: df = self.assign_cutoffs(df)
AssignCutoffs ==
    /\ pc = "parsed"
    /\ LET r == assign_cutoffs(df)
       IN  /\ pc' = IF r.error # "" THEN "failed" ELSE "assigned"
           /\ new_rows' = r.new_rows
           /\ cutoff_counter' = r.cutoff_counter
           /\ result_df' = r.result
           /\ error' = r.error
    /\ df' = CallerFrame(df)
    /\ UNCHANGED <<file_extension, content, sheet_columns, sheet, derived_df,
                   final_df>>
    /\ UNCHANGED <<callVars, uploadVars>>

\* process_file: df = self.calculate_derived_columns(df)
CalculateDerivedColumns ==
    /\ pc = "assigned"
    /\ LET r == calculate_derived_columns(result_df)
       IN  /\ pc' = IF r.error # "" THEN "failed" ELSE "derived"
           /\ derived_df' = r.df
           /\ error' = r.error
    /\ UNCHANGED <<file_extension, content, sheet_columns, sheet, df, new_rows,
                   cutoff_counter, result_df, final_df>>
    /\ UNCHANGED <<callVars, uploadVars>>

\* process_file: df = self.reorder_columns(df); return df
ReorderColumns ==
    /\ pc = "derived"
    /\ LET r == reorder_columns(derived_df)
       IN  /\ pc' = IF r.error # "" THEN "failed" ELSE "done"
           /\ final_df' = r.df
           /\ error' = r.error
    /\ UNCHANGED <<file_extension, content, sheet_columns, sheet, df, new_rows,
                   cutoff_counter, result_df, derived_df>>
    /\ UNCHANGED <<callVars, uploadVars>>

Next ==
    \/ ParseTxtFile
    \/ ParseXlsxFile
    \/ UnsupportedExtension
    \/ AssignCutoffs
    \/ CalculateDerivedColumns
    \/ ReorderColumns

Spec == Init /\ [][Next]_vars

SpecReport == InitReport /\ [][Next]_vars

\* ------------------------------------------------- concurrent invocations
\* Two invocations of process_file on the one singleton, each with its own
\* argument and locals. A step is one statement of process_file, the loop
\* of assign_cutoffs one group at a time: every order of the steps of the
\* two invocations is a behaviour, the two run one after the other included.
Calls == {1, 2}

CallTokens ==
    {Tray(<<"5", "0", "0">>, <<"3", "0", "0">>, <<"1">>),
     Tray(<<"6", "0", "0">>, <<"3", "0", "0">>, <<"3">>),
     Tok(<<"p">>, <<"1", "0", "0">>, <<"2", "0", "0">>, <<"3", "0">>, <<"4">>)}

CallInputs == SeqsUpTo(CallTokens, MaxCallTokens)

NewCall(text) ==
    [pc |-> "start", content |-> text, df |-> NoTable, groups |-> <<>>, g |-> 0,
     new_rows |-> <<>>, cutoff_counter |-> 0, result_df |-> NoTable,
     derived_df |-> NoTable, final_df |-> NoFrame, error |-> "", overlapped |-> FALSE]

InitCalls ==
    /\ file_extension = ".txt"
    /\ content = <<>>
    /\ sheet_columns = {}
    /\ sheet = <<>>
    /\ pc = "start"
    /\ df = NoTable
    /\ new_rows = <<>>
    /\ cutoff_counter = 0
    /\ result_df = NoTable
    /\ derived_df = NoTable
    /\ final_df = NoFrame
    /\ error = ""
    /\ service = CalculatorService
    /\ calls \in [Calls -> {NewCall(text) : text \in CallInputs}]
    /\ NoUpload

\* cutoff_counter kept where every invocation sees it: an invocation goes
\* on from the greatest counter another invocation has reached
CutoffCounterShared(cs, i) ==
    IF \E j \in DOMAIN cs \ {i} : cs[j].cutoff_counter > 1
    THEN SetMax({cs[j].cutoff_counter : j \in DOMAIN cs \ {i}})
    ELSE 1

\* cutoff_counter = 1: a local of the invocation
CutoffCounterStart(cs, i) == 1

\* The body of the loop over the groups, for one group: s holds new_rows
\* and cutoff_counter, the capacities and cutoff types are read from the
\* singleton when the group is handled.
GroupBody(s, group, capacities, cutoff_types) ==
    IF group.key[1] \notin DOMAIN capacities
    THEN [s EXCEPT !.error = "KeyError"]
    ELSE SubgroupLoop(Subgroups(group.rows, capacities[group.key[1]]),
                      cutoff_types[group.key[1]], s,
                      Len(Subgroups(group.rows, capacities[group.key[1]])))

\* Another invocation is inside its loop over the groups
OtherInLoop(i) == \E j \in Calls \ {i} : calls[j].pc = "loop" /\ calls[j].g > 1

\* df = self.parse_txt_file(content)
CallParse(i) ==
    /\ calls[i].pc = "start"
    /\ LET r == parse_txt_file(calls[i].content)
       IN  calls' = [calls EXCEPT ![i].pc = IF r.error # "" THEN "failed" ELSE "parsed",
                                  ![i].df = r.df,
                                  ![i].error = r.error]
    /\ UNCHANGED <<fileVars, service, uploadVars>>

\* assign_cutoffs up to its loop: sort_values, new_rows = [],
\* cutoff_counter = 1, groupby
CallSort(i) ==
    /\ calls[i].pc = "parsed"
    /\ IF ~({"form_type", "width_mm", "length_m"} \subseteq calls[i].df.columns)
       THEN calls' = [calls EXCEPT ![i].pc = "failed", ![i].error = "KeyError"]
       ELSE calls' = [calls EXCEPT ![i].pc = "loop",
                                   ![i].groups = groupby(sort_values(calls[i].df.rows)),
                                   ![i].g = 1,
                                   ![i].new_rows = <<>>,
                                   ![i].cutoff_counter = CutoffCounterStart(calls, i)]
    /\ UNCHANGED <<fileVars, service, uploadVars>>

\* One pass of the loop over the groups
CallGroup(i) ==
    /\ calls[i].pc = "loop"
    /\ calls[i].g <= Len(calls[i].groups)
    /\ LET s == GroupBody([error |-> "", new_rows |-> calls[i].new_rows,
                           cutoff_counter |-> calls[i].cutoff_counter],
                          calls[i].groups[calls[i].g],
                          service.FORM_CAPACITY, service.CUTOFF_TYPES)
       IN  calls' = [calls EXCEPT ![i].pc = IF s.error # "" THEN "failed" ELSE "loop",
                                  ![i].g = calls[i].g + 1,
                                  ![i].new_rows = s.new_rows,
                                  ![i].cutoff_counter = s.cutoff_counter,
                                  ![i].error = s.error,
                                  ![i].overlapped = calls[i].overlapped \/ OtherInLoop(i)]
    /\ UNCHANGED <<fileVars, service, uploadVars>>

\* The end of assign_cutoffs: the frame of new_rows without width_mm, length_mm
CallReturnAssigned(i) ==
    /\ calls[i].pc = "loop"
    /\ calls[i].g > Len(calls[i].groups)
    /\ calls' = [calls EXCEPT ![i].pc = "assigned",
                              ![i].result_df = DroppedTable(calls[i].new_rows)]
    /\ UNCHANGED <<fileVars, service, uploadVars>>

\* df = self.calculate_derived_columns(df)
CallDerived(i) ==
    /\ calls[i].pc = "assigned"
    /\ LET r == calculate_derived_columns(calls[i].result_df)
       IN  calls' = [calls EXCEPT ![i].pc = IF r.error # "" THEN "failed" ELSE "derived",
                                  ![i].derived_df = r.df,
                                  ![i].error = r.error]
    /\ UNCHANGED <<fileVars, service, uploadVars>>

\* df = self.reorder_columns(df); return df
CallReorder(i) ==
    /\ calls[i].pc = "derived"
    /\ LET r == reorder_columns(calls[i].derived_df)
       IN  calls' = [calls EXCEPT ![i].pc = IF r.error # "" THEN "failed" ELSE "done",
                                  ![i].final_df = r.df,
                                  ![i].error = r.error]
    /\ UNCHANGED <<fileVars, service, uploadVars>>

NextCalls ==
    \E i \in Calls :
        \/ CallParse(i)
        \/ CallSort(i)
        \/ CallGroup(i)
        \/ CallReturnAssigned(i)
        \/ CallDerived(i)
        \/ CallReorder(i)

SpecCalls == InitCalls /\ [][NextCalls]_vars

\* ------------------------------------------------------- the upload handler
\* process_file as one call: what it returns, or the exception it re-raises
process_file(extension, text, columns, rows) ==
    LET parsed == IF extension = ".txt" THEN parse_txt_file(text)
                  ELSE IF extension = ".xlsx" THEN parse_xlsx_file(columns, rows)
                  ELSE [error |-> "ValueError", df |-> NoTable]
        assigned == assign_cutoffs(parsed.df)
        derived == calculate_derived_columns(assigned.result)
    IN  IF parsed.error # "" THEN [error |-> parsed.error, df |-> NoFrame]
        ELSE IF assigned.error # "" THEN [error |-> assigned.error, df |-> NoFrame]
        ELSE IF derived.error # "" THEN [error |-> derived.error, df |-> NoFrame]
        ELSE reorder_columns(derived.df)

\* The extensions upload_file lets through
AllowedExtensions == {".txt", ".xlsx"}

\* What a write to the disk can do: succeed, fail with nothing written,
\* fail with a part of the file written
WriteOutcomes == {"written", "nothing", "partial"}

\* What db.commit() and db.refresh() can do: both succeed, the commit
\* raises, the refresh raises after the row was committed
RecordOutcomes == {"recorded", "commit raised", "refresh raised"}

\* The uploads: texts, one-row sheets with and without the name and unit
\* columns, and a file of another kind
Uploads ==
    {[file_extension |-> ".txt", content |-> text, sheet_columns |-> {}, sheet |-> <<>>] :
        text \in CallInputs}
      \cup {[file_extension |-> ".xlsx", content |-> <<>>, sheet_columns |-> columns,
             sheet |-> <<Restrict(row, columns)>>] :
                columns \in {SheetColumns, FiveColumns}, row \in ReportRows}
      \cup {[file_extension |-> ".csv", content |-> <<>>, sheet_columns |-> {},
             sheet |-> <<>>]}

InitUpload ==
    /\ file_extension = ".txt"
    /\ content = <<>>
    /\ sheet_columns = {}
    /\ sheet = <<>>
    /\ pc = "start"
    /\ df = NoTable
    /\ new_rows = <<>>
    /\ cutoff_counter = 0
    /\ result_df = NoTable
    /\ derived_df = NoTable
    /\ final_df = NoFrame
    /\ error = ""
    /\ service = CalculatorService
    /\ calls = <<>>
    /\ upload \in Uploads
    /\ handler_pc = "received"
    /\ storage = {}
    /\ db_records = {}
    /\ response = 0

\* The checks before the try block: the extension (the size check has the
\* same two ways out)
UploadValidate ==
    /\ handler_pc = "received"
    /\ IF upload.file_extension \in AllowedExtensions
       THEN handler_pc' = "try" /\ response' = response
       ELSE handler_pc' = "finished" /\ response' = 400
    /\ UNCHANGED <<fileVars, callVars, upload, storage, db_records>>

\* with open(temp_path, 'wb') as f: f.write(content)
UploadSaveTemp ==
    /\ handler_pc = "try"
    /\ \E outcome \in WriteOutcomes :
           /\ storage' = IF outcome = "nothing" THEN storage ELSE storage \cup {"temp"}
           /\ handler_pc' = IF outcome = "written" THEN "process" ELSE "except"
    /\ UNCHANGED <<fileVars, callVars, upload, db_records, response>>

\* df = await calculator_service.process_file(...)
UploadProcess ==
    /\ handler_pc = "process"
    /\ handler_pc' = IF process_file(upload.file_extension, upload.content,
                                     upload.sheet_columns, upload.sheet).error # ""
                     THEN "except" ELSE "write"
    /\ UNCHANGED <<fileVars, callVars, upload, storage, db_records, response>>

\* df.to_excel(output_path, index=False); output_path.stat()
UploadWriteOutput ==
    /\ handler_pc = "write"
    /\ \E outcome \in WriteOutcomes :
           /\ storage' = IF outcome = "nothing" THEN storage ELSE storage \cup {"output"}
           /\ handler_pc' = IF outcome = "written" THEN "record" ELSE "except"
    /\ UNCHANGED <<fileVars, callVars, upload, db_records, response>>

\* db.add(calc_file); await db.commit(); await db.refresh(calc_file)
UploadRecord ==
    /\ handler_pc = "record"
    /\ \E outcome \in RecordOutcomes :
           /\ db_records' = IF outcome = "commit raised" THEN db_records
                            ELSE db_records \cup {"output"}
           /\ handler_pc' = IF outcome = "recorded" THEN "return" ELSE "except"
    /\ UNCHANGED <<fileVars, callVars, upload, storage, response>>

\* return {...}: the answer is 200; the finally block runs next
UploadReturn ==
    /\ handler_pc = "return"
    /\ response' = 200
    /\ handler_pc' = "finally"
    /\ UNCHANGED <<fileVars, callVars, upload, storage, db_records>>

\* except Exception: raise HTTPException(status_code=500); the finally
\* block runs next
UploadExcept ==
    /\ handler_pc = "except"
    /\ response' = 500
    /\ handler_pc' = "finally"
    /\ UNCHANGED <<fileVars, callVars, upload, storage, db_records>>

\* finally: if temp_path.exists(): temp_path.unlink()
UploadFinally ==
    /\ handler_pc = "finally"
    /\ storage' = storage \ {"temp"}
    /\ handler_pc' = "finished"
    /\ UNCHANGED <<fileVars, callVars, upload, db_records, response>>

NextUpload ==
    \/ UploadValidate
    \/ UploadSaveTemp
    \/ UploadProcess
    \/ UploadWriteOutput
    \/ UploadRecord
    \/ UploadReturn
    \/ UploadExcept
    \/ UploadFinally

SpecUpload == InitUpload /\ [][NextUpload]_vars

\* ------------------------------------------------------------ the output
\* The rows of the table assign_cutoffs returned; row i is new_rows[i]
\* without its millimetre columns.
Out == result_df.rows

CutoffIds == {Out[i].cutoff : i \in 1..Len(Out)}

\* The rows of cutoff c, as positions of the output
Members(c) == {i \in 1..Len(Out) : Out[i].cutoff = c}

RECURSIVE SumQuantity(_, _)
SumQuantity(rows, I) ==
    IF I = {} THEN 0
    ELSE LET i == CHOOSE j \in I : TRUE
         IN  rows[i].quantity + SumQuantity(rows, I \ {i})

\* C1. Capacity invariant: in the table assign_cutoffs returns, a cutoff
\* whose quantities sum to more than the capacity of its form type is a
\* single record (whose own quantity then exceeds the capacity); every
\* other cutoff sums to at most the capacity.
C1_CapacityInvariant ==
    pc = "assigned" =>
        \A c \in CutoffIds : \A i \in Members(c) :
            LET capacity == FORM_CAPACITY[Out[i].form_type]
                total == SumQuantity(Out, Members(c))
            IN  IF total > capacity
                THEN Cardinality(Members(c)) = 1 /\ Out[i].quantity > capacity
                ELSE total <= capacity

\* A returned table with an over-capacity cutoff of one record next to a
\* cutoff of several records.
C1_Witness ==
    /\ pc = "assigned"
    /\ \E c \in CutoffIds : \E i \in Members(c) :
           SumQuantity(Out, Members(c)) > FORM_CAPACITY[Out[i].form_type]
    /\ \E c \in CutoffIds : Cardinality(Members(c)) >= 2

\* C2. Exactly-one-reference invariant: every cutoff of the output has
\* exactly one record with cutoff_type = 0; that record has the greatest
\* length_m of the cutoff and, among the records of the cutoff that tie on
\* it, is the one that came first in the input; every other record carries
\* the nonzero cutoff-type constant of its form type.
C2_ExactlyOneReference ==
    pc = "assigned" =>
        \A c \in CutoffIds :
            /\ Cardinality({i \in Members(c) : Out[i].cutoff_type = 0}) = 1
            /\ \A z \in Members(c) : Out[z].cutoff_type = 0 =>
                   \A i \in Members(c) \ {z} :
                       /\ Out[i].length_m <= Out[z].length_m
                       /\ Out[i].length_m = Out[z].length_m =>
                              new_rows[z].index < new_rows[i].index
                       /\ Out[i].cutoff_type = CUTOFF_TYPES[Out[i].form_type]
                       /\ Out[i].cutoff_type # 0

\* A cutoff in which two records tie on the greatest length.
C2_Witness ==
    /\ pc = "assigned"
    /\ \E c \in CutoffIds : \E z, i \in Members(c) :
           /\ z # i
           /\ Out[z].cutoff_type = 0
           /\ Out[i].length_m = Out[z].length_m

\* C3. Sequential ids: for a non-empty input the cutoff ids of the output
\* are exactly 1..K for some K >= 1, K being the number of ids the counter
\* handed out (no gap, no id spent on an empty bin), and the ids never
\* decrease along the rows of the output.
C3_SequentialIds ==
    (pc = "assigned" /\ Len(df.rows) > 0) =>
        /\ cutoff_counter - 1 >= 1
        /\ CutoffIds = 1..(cutoff_counter - 1)
        /\ \A i \in 1..(Len(Out) - 1) : Out[i].cutoff <= Out[i + 1].cutoff

\* An output with three cutoffs, among them an over-capacity record that
\* opens its group.
C3_Witness ==
    /\ pc = "assigned"
    /\ Cardinality(CutoffIds) >= 3
    /\ \E i \in 1..Len(Out) : Out[i].quantity > FORM_CAPACITY[Out[i].form_type]

\* The fields of row (a row of new_rows or of the output) that the input
\* row r also has agree with r.
SameInputFields(row, r) == \A col \in DOMAIN row \cap DOMAIN r : row[col] = r[col]

\* C4. Every input record belongs to exactly one cutoff: the output holds
\* each input record exactly once, with its input fields unchanged and with
\* one cutoff id, and the records of one cutoff share (form_type, width_mm).
C4_ExactlyOneCutoff ==
    pc = "assigned" =>
        /\ Len(Out) = Len(df.rows)
        /\ Len(new_rows) = Len(df.rows)
        /\ \A j \in 1..Len(df.rows) :
               /\ Cardinality({i \in 1..Len(new_rows) :
                                   new_rows[i].index = df.rows[j].index}) = 1
               /\ \A i \in 1..Len(new_rows) :
                      new_rows[i].index = df.rows[j].index =>
                          /\ SameInputFields(new_rows[i], df.rows[j])
                          /\ SameInputFields(Out[i], df.rows[j])
                          /\ IngestColumns \ {"width_mm", "length_mm"} \subseteq DOMAIN Out[i]
                          /\ Out[i].cutoff \in 1..Len(df.rows)
        /\ \A i, j \in 1..Len(Out) :
               Out[i].cutoff = Out[j].cutoff => GroupKey(new_rows[i]) = GroupKey(new_rows[j])

\* Three input records in two cutoffs, one of them of two records.
C4_Witness ==
    /\ pc = "assigned"
    /\ Len(df.rows) = 3
    /\ Cardinality(CutoffIds) = 2

\* -------------------------------------------------- the order of the input
Perms(n) == {f \in [1..n -> 1..n] : \A i, j \in 1..n : i # j => f[i] # f[j]}

\* The frame with the same rows in the order f, labelled anew
Permuted(d, f) ==
    Table(d.columns, [i \in 1..Len(d.rows) |-> [d.rows[f[i]] EXCEPT !.index = i - 1]])

\* Two rows tie on the three sort keys
SortTie(a, b) == ~SortsBefore(a, b) /\ ~SortsBefore(b, a)

\* The order f keeps rows that tie on the sort keys in their relative order
KeepsTieOrder(rows, f) ==
    \A i, j \in 1..Len(rows) :
        (i < j /\ SortTie(rows[f[i]], rows[f[j]])) => f[i] < f[j]

\* assign_cutoffs was called on df
AssignRan == ~df.none /\ (pc = "assigned" \/ (pc = "failed" /\ result_df.none))

\* C5 as stated. Determinism over the input multiset: the engine returns
\* the same table for every order of the same records, also when records
\* tie on (form_type, width_mm, length_m) and differ in quantity.
C5_AnyOrderSameOutput ==
    AssignRan =>
        \A f \in Perms(Len(df.rows)) : assign_cutoffs(Permuted(df, f)).result = result_df

\* C5, amended. The engine returns the same table (or fails alike) for
\* every order of the same records in which the records that tie on
\* (form_type, width_mm, length_m) keep their relative order; so for every
\* order when no two records tie.
C5_SameOutputUpToTies ==
    AssignRan =>
        \A f \in Perms(Len(df.rows)) :
            KeepsTieOrder(df.rows, f) =>
                LET r == assign_cutoffs(Permuted(df, f))
                IN  r.result = result_df /\ r.error = error

\* A returned table whose input has both a pair of tied records that differ
\* in quantity and another order that keeps the ties in place.
C5_Witness ==
    /\ pc = "assigned"
    /\ \E i, j \in 1..Len(df.rows) :
           /\ i # j
           /\ SortTie(df.rows[i], df.rows[j])
           /\ df.rows[i].quantity # df.rows[j].quantity
    /\ \E f \in Perms(Len(df.rows)) :
           /\ KeepsTieOrder(df.rows, f)
           /\ \E i \in 1..Len(df.rows) : f[i] # i

\* ------------------------------------------------------- token-list mode
\* The words of the uploaded text
Items == SplitItems(content)

\* The whole string matches ^(\w+)_(\d+)x(\d+)x(\d+)_(\d+)$: some split of
\* it into name and numbers ends at its last character.
FullMatch(s) == \E k \in NameEnds(s) : FormTypeEnd(s, k) = Len(s)

TxtParseRan == file_extension = ".txt" /\ pc # "start"

\* C6 as stated. The name parser accepts an identifier only when the whole
\* string matches the grammar; one with characters after the form-type
\* digits is rejected.
C6_WholeStringOnly ==
    TxtParseRan =>
        \A i \in 1..Len(Items) :
            parse_item_name(Items[i]).error = "" => FullMatch(Items[i])

\* C7. A record whose form type is no key of the configured mapping makes
\* assign_cutoffs fail and return no table, wherever its group sorts.
C7_UnknownFormTypeAborts ==
    (AssignRan /\ \E i \in 1..Len(df.rows) : df.rows[i].form_type \notin {1, 2, 3}) =>
        /\ pc = "failed"
        /\ error = "KeyError"
        /\ result_df = NoTable

\* The unknown form type sorts last: rows of an earlier group were already
\* built when the call failed.
C7_Witness ==
    /\ pc = "failed"
    /\ AssignRan
    /\ Len(new_rows) > 0
    /\ \E i \in 1..Len(df.rows) : df.rows[i].form_type > 3

\* C8 as stated. A record with a quantity <= 0 makes the batch fail; it is
\* never assigned to a cutoff nor returned in a table.
C8_NonPositiveQuantityAborts ==
    (AssignRan /\ \E i \in 1..Len(df.rows) : df.rows[i].quantity <= 0) =>
        /\ pc = "failed"
        /\ result_df = NoTable

\* C9 as stated. In token-list mode a malformed token, wherever it stands,
\* makes ingestion fail and yield no records.
C9_MalformedTokenAborts ==
    (TxtParseRan /\ \E i \in 1..Len(Items) : ~FullMatch(Items[i])) =>
        /\ error = "ValueError"
        /\ df = NoTable

Occurrences(t) == {i \in 1..Len(Items) : Items[i] = t}

FirstOccurrence(t) == CHOOSE i \in Occurrences(t) : \A j \in Occurrences(t) : i <= j

\* The place of token t among the distinct tokens, by first occurrence
Rank(t) ==
    Cardinality({Items[i] : i \in 1..(FirstOccurrence(t) - 1)}) + 1

\* C10. Token-list ingestion yields one record per distinct token, in the
\* order of first occurrence, whose quantity is the number of occurrences
\* of the token; the quantities sum to the number of tokens.
C10_OneRecordPerToken ==
    (file_extension = ".txt" /\ pc = "parsed") =>
        LET tokens == {Items[i] : i \in 1..Len(Items)}
        IN  /\ Len(df.rows) = Cardinality(tokens)
            /\ SumQuantity(df.rows, 1..Len(df.rows)) = Len(Items)
            /\ \A t \in tokens :
                   LET row == df.rows[Rank(t)]
                       parsed == parse_item_name(t)
                   IN  /\ row.quantity = Cardinality(Occurrences(t))
                       /\ row.width_mm = parsed.width_mm
                       /\ row.length_mm = parsed.length_mm
                       /\ row.form_type = parsed.form_type
                       /\ SubSeq(row.name, 1, Len(parsed.name)) = parsed.name

\* A token seen twice with another token first seen in between.
C10_Witness ==
    /\ file_extension = ".txt"
    /\ pc = "parsed"
    /\ Len(Items) = 3
    /\ Items[1] = Items[3]
    /\ Items[1] # Items[2]
    /\ Len(df.rows) = 2

\* ------------------------------------------------------ order and packing
\* C11. Cutoff ids follow the group order: a cutoff of a group with a
\* smaller (form_type, width_mm) has a smaller id, and the ids of one group
\* are consecutive integers, handed out in the order of its rows.
C11_IdsFollowGroupOrder ==
    pc = "assigned" =>
        \A i, j \in 1..Len(Out) :
            /\ KeyLess(GroupKey(new_rows[i]), GroupKey(new_rows[j])) =>
                   Out[i].cutoff < Out[j].cutoff
            /\ (GroupKey(new_rows[i]) = GroupKey(new_rows[j])
                    /\ Out[i].cutoff < Out[j].cutoff) =>
                   /\ i < j
                   /\ \A c \in Out[i].cutoff..Out[j].cutoff :
                          \E k \in Members(c) : GroupKey(new_rows[k]) = GroupKey(new_rows[i])

\* Two groups, the first of them split into two cutoffs.
C11_Witness ==
    /\ pc = "assigned"
    /\ \E i, j, k \in 1..Len(Out) :
           /\ GroupKey(new_rows[i]) = GroupKey(new_rows[j])
           /\ Out[i].cutoff # Out[j].cutoff
           /\ KeyLess(GroupKey(new_rows[i]), GroupKey(new_rows[k]))

AllPositive == \A i \in 1..Len(df.rows) : df.rows[i].quantity > 0

AllFormTypesKnown == \A i \in 1..Len(df.rows) : df.rows[i].form_type \in {1, 2, 3}

\* The input records whose own quantity exceeds the capacity of their form
OverCapacity ==
    {i \in 1..Len(df.rows) : df.rows[i].quantity > FORM_CAPACITY[df.rows[i].form_type]}

\* C12. Over-capacity singleton: when all quantities are positive (and all
\* form types configured), a record whose own quantity exceeds the capacity
\* is not rejected and not split: the call returns a table in which the
\* record stands once, with its quantity, as the only record of its cutoff;
\* and every id handed out has a record (no empty cutoff around it).
C12_OverCapacitySingleton ==
    (AssignRan /\ AllPositive /\ AllFormTypesKnown /\ OverCapacity # {}) =>
        /\ pc = "assigned"
        /\ CutoffIds = 1..(cutoff_counter - 1)
        /\ \A i \in OverCapacity :
               \E k \in 1..Len(Out) :
                   /\ new_rows[k].index = df.rows[i].index
                   /\ Out[k].quantity = df.rows[i].quantity
                   /\ Members(Out[k].cutoff) = {k}
                   /\ \A m \in 1..Len(Out) : new_rows[m].index = df.rows[i].index => m = k

\* An over-capacity record between two other records of its group.
C12_Witness ==
    /\ pc = "assigned"
    /\ AllPositive
    /\ \E i \in OverCapacity : \E k \in 2..(Len(Out) - 1) :
           /\ new_rows[k].index = df.rows[i].index
           /\ GroupKey(new_rows[k - 1]) = GroupKey(new_rows[k])
           /\ GroupKey(new_rows[k + 1]) = GroupKey(new_rows[k])

\* C13 as stated, for positive quantities. Every cutoff is a maximal set of
\* records of its group within capacity: no record of the same group that
\* stands in another cutoff could be added to it without its summed
\* quantity exceeding the capacity.
C13_MaximalSet ==
    (pc = "assigned" /\ AllPositive) =>
        \A i, j \in 1..Len(Out) :
            (GroupKey(new_rows[i]) = GroupKey(new_rows[j])
                 /\ Out[i].cutoff # Out[j].cutoff) =>
                SumQuantity(Out, Members(Out[i].cutoff)) + Out[j].quantity
                    > FORM_CAPACITY[Out[i].form_type]

\* The first row of cutoff c in the output
FirstMember(c) == CHOOSE i \in Members(c) : \A j \in Members(c) : i <= j

\* C13, amended. A cutoff is maximal only with respect to the record that
\* follows it: the record that opens the next cutoff of the same group could
\* not be added to it without its summed quantity exceeding the capacity.
C13_MaximalForNextRecord ==
    pc = "assigned" =>
        \A c \in CutoffIds :
            (c + 1 \in CutoffIds
                 /\ GroupKey(new_rows[FirstMember(c)]) = GroupKey(new_rows[FirstMember(c + 1)])) =>
                SumQuantity(Out, Members(c)) + Out[FirstMember(c + 1)].quantity
                    > FORM_CAPACITY[Out[FirstMember(c)].form_type]

\* Positive quantities, three cutoffs of one group; the record of the third
\* would still fit into the first.
C13_Witness ==
    /\ pc = "assigned"
    /\ AllPositive
    /\ \E c \in CutoffIds :
           /\ c + 2 \in CutoffIds
           /\ GroupKey(new_rows[FirstMember(c)]) = GroupKey(new_rows[FirstMember(c + 2)])
           /\ SumQuantity(Out, Members(c)) + Out[FirstMember(c + 2)].quantity
                  <= FORM_CAPACITY[Out[FirstMember(c)].form_type]

\* -------------------------------------------------------------- round trip
\* name_WIDTHxLENGTHxPROJECTION_FORMTYPE, written from parsed fields
Rebuild(parsed) ==
    parsed.name \o <<"_">> \o IntToStr(parsed.width_mm) \o <<"x">>
        \o IntToStr(parsed.length_mm) \o <<"x">> \o IntToStr(parsed.projection_mm)
        \o <<"_">> \o IntToStr(parsed.form_type)

\* C18. Parse round trip: an identifier that matches the grammar is parsed;
\* its name is its own leading characters, verbatim; the identifier rebuilt
\* from the parsed fields matches the grammar and parses to the same name
\* and the same four numbers; and it is the original identifier itself
\* unless a number of the original was written with leading zeros.
C18_ParseRoundTrip ==
    TxtParseRan =>
        \A i \in 1..Len(Items) :
            FullMatch(Items[i]) =>
                LET parsed == parse_item_name(Items[i])
                IN  /\ parsed.error = ""
                    /\ parsed.name = SubSeq(Items[i], 1, Len(parsed.name))
                    /\ FullMatch(Rebuild(parsed))
                    /\ parse_item_name(Rebuild(parsed)) = parsed
                    /\ Len(Rebuild(parsed)) = Len(Items[i]) => Rebuild(parsed) = Items[i]

\* A parsed list with an identifier whose name holds an underscore and a
\* digit, and one whose width is written with a leading zero.
C18_Witness ==
    /\ TxtParseRan
    /\ \E i, j \in 1..Len(Items) :
           /\ FullMatch(Items[i])
           /\ \E k \in 1..Len(parse_item_name(Items[i]).name) :
                  parse_item_name(Items[i]).name[k] = "_"
           /\ \E k \in 1..Len(parse_item_name(Items[i]).name) :
                  parse_item_name(Items[i]).name[k] \in Digit
           /\ FullMatch(Items[j])
           /\ Rebuild(parse_item_name(Items[j])) # Items[j]

\* ------------------------------------------------------------- the report
\* The rows of the table process_file returned
Report == final_df.rows

XlsxParseRan == file_extension = ".xlsx" /\ pc # "start"

\* C14 as stated. The unit label of every row of the returned table is the
\* constant label of the token-list mode, whatever the mode and the input.
C14_UnitLabelConstant ==
    pc = "done" => \A i \in 1..Len(Report) : Report[i].unit = "sht."

\* C15 as stated. Tabular ingestion fails exactly when one of the five
\* columns quantity, width, length, projection, form type is missing (the
\* quantity under either of its two headings); a table that has them is
\* ingested, and none of its other columns reaches the ingested frame.
C15_FailsExactlyWhenOneOfFiveMissing ==
    XlsxParseRan =>
        /\ (df.none /\ pc = "failed") <=> ~(FiveColumns \subseteq RenameColumns(sheet_columns))
        /\ ~df.none =>
               /\ "note" \notin df.columns
               /\ \A i \in 1..Len(df.rows) : "note" \notin DOMAIN df.rows[i]

\* C16. The table process_file returns has exactly the twelve columns, in
\* the order of the list; its rows hold these columns and no other (no
\* width_mm, no length_mm); and it has one row per assigned record, row i
\* being record i of assign_cutoffs. Nothing is returned from another
\* position of process_file.
C16_TwelveColumnsInOrder ==
    /\ ~final_df.none <=> pc = "done"
    /\ pc = "done" =>
           /\ final_df.columns =
                  <<"name", "unit", "quantity", "width_m", "length_m", "unroll_m",
                    "total_area_m", "projection_m", "projection_area_m", "form_type",
                    "cutoff", "cutoff_type">>
           /\ Len(Report) = Len(Out)
           /\ \A i \in 1..Len(Report) :
                  /\ DOMAIN Report[i] = Range(final_df.columns)
                  /\ {"width_mm", "length_mm"} \cap DOMAIN Report[i] = {}
                  /\ \A c \in DOMAIN Out[i] : Report[i][c] = Out[i][c]

\* A returned table of three records in two cutoffs.
C16_Witness ==
    /\ pc = "done"
    /\ Len(Report) = 3
    /\ \E i, j \in 1..Len(Report) : Report[i].cutoff # Report[j].cutoff

Abs(x) == IF x < 0 THEN -x ELSE x

\* r is v rounded to a multiple of d: the nearest multiple, and on a tie
\* the even one.
IsRoundedHalfEven(r, v, d) ==
    /\ r % d = 0
    /\ 2 * Abs(r - v) <= d
    /\ 2 * Abs(r - v) = d => (r \div d) % 2 = 0

\* C17. For every row of the returned table, with lengths in 1/10^4 m and
\* areas in 1/10^4 m2: the unroll area is width_m * length_m rounded to two
\* decimals, the total area is the rounded unroll area times the quantity
\* rounded to two decimals, the projection area is length_m * projection_m
\* * quantity rounded to two decimals; every rounding takes the nearest
\* value and the even one on a tie, and the factors are the metre columns
\* of the row.
C17_DerivedMetricIdentities ==
    pc = "done" =>
        \A i \in 1..Len(Report) :
            /\ IsRoundedHalfEven(10000 * Report[i].unroll_m,
                                 Report[i].width_m * Report[i].length_m, 1000000)
            /\ IsRoundedHalfEven(Report[i].total_area_m,
                                 Report[i].unroll_m * Report[i].quantity, 100)
            /\ IsRoundedHalfEven(10000 * Report[i].projection_area_m,
                                 Report[i].length_m * Report[i].projection_m
                                     * Report[i].quantity, 1000000)

\* A returned table with a row whose unroll area is a tie, whose total area
\* differs from the rounded product of the three factors, and a row whose
\* millimetre keys give another unroll area than its metre values.
C17_Witness ==
    /\ pc = "done"
    /\ \E i \in 1..Len(Report) :
           /\ 2 * Abs(10000 * Report[i].unroll_m - Report[i].width_m * Report[i].length_m)
                  = 1000000
           /\ ~IsRoundedHalfEven(10000 * Report[i].total_area_m,
                                 Report[i].width_m * Report[i].length_m
                                     * Report[i].quantity, 1000000)
    /\ \E i \in 1..Len(Report) :
           ~IsRoundedHalfEven(10000 * Report[i].unroll_m,
                              100 * new_rows[i].width_mm * new_rows[i].length_mm, 1000000)

\* ------------------------------------------------------------ independence
\* What process_file returns or raises for a text when it runs alone
Alone(text) == process_file(".txt", text, {}, <<>>)

CallEnded(i) == calls[i].pc \in {"done", "failed"}

\* C19. Invocations are independent: in every order of the steps of two
\* invocations on the one singleton, an invocation that has ended has
\* returned the table, or raised the error, that it returns or raises when
\* it runs alone; the least cutoff id of a returned table is 1; and the
\* capacities and cutoff types held by the singleton are those with which
\* it was built.
C19_InvocationsIndependent ==
    /\ service = [FORM_CAPACITY |-> FORM_CAPACITY, CUTOFF_TYPES |-> CUTOFF_TYPES]
    /\ \A i \in DOMAIN calls :
           CallEnded(i) =>
               /\ [error |-> calls[i].error, df |-> calls[i].final_df]
                      = Alone(calls[i].content)
               /\ calls[i].pc = "done" =>
                      /\ \E k \in 1..Len(calls[i].final_df.rows) :
                             calls[i].final_df.rows[k].cutoff = 1
                      /\ \A k \in 1..Len(calls[i].final_df.rows) :
                             calls[i].final_df.rows[k].cutoff >= 1

\* Both invocations have returned a table of two cutoffs, and one of them
\* handled a group while the other was inside its loop.
C19_Witness ==
    /\ DOMAIN calls = Calls
    /\ \A i \in Calls :
           /\ calls[i].pc = "done"
           /\ \E k \in 1..Len(calls[i].final_df.rows) : calls[i].final_df.rows[k].cutoff = 2
    /\ \E i \in Calls : calls[i].overlapped

\* -------------------------------------------------------- failed uploads
\* C20 as stated. When the handling of an upload has failed, at whatever
\* step, the handler has answered with an error status and no output
\* spreadsheet of the request is left in storage.
C20_NoOutputAfterFailure ==
    (handler_pc = "finished" /\ response # 200) =>
        /\ response \in {400, 500}
        /\ "output" \notin storage

\* ------------------------------------------------- sequential accumulation
SameGroup(i, j) == GroupKey(new_rows[i]) = GroupKey(new_rows[j])

\* C21. Sequential accumulation: the rows built are the rows of the sorted
\* input, in that order, so that the lengths of a group do not increase;
\* the rows of a cutoff are consecutive rows, and a later row of a group is
\* never in an earlier cutoff; and where a cutoff of a group ends and the
\* next begins, the quantities of the ended cutoff plus the quantity of the
\* row that opens the next exceed the capacity.
C21_SequentialAccumulation ==
    pc = "assigned" =>
        /\ Len(new_rows) = Len(df.rows)
        /\ \A i \in 1..Len(new_rows) : new_rows[i].index = sort_values(df.rows)[i].index
        /\ \A i, j \in 1..Len(Out) :
               (i < j /\ SameGroup(i, j)) =>
                   /\ Out[i].length_m >= Out[j].length_m
                   /\ Out[i].cutoff <= Out[j].cutoff
        /\ \A i, j, k \in 1..Len(Out) :
               (i < j /\ j < k /\ Out[i].cutoff = Out[k].cutoff) =>
                   Out[j].cutoff = Out[i].cutoff
        /\ \A i \in 1..(Len(Out) - 1) :
               (SameGroup(i, i + 1) /\ Out[i].cutoff # Out[i + 1].cutoff) =>
                   SumQuantity(Out, Members(Out[i].cutoff)) + Out[i + 1].quantity
                       > FORM_CAPACITY[Out[i].form_type]

\* Three rows of one group: the second opened a new cutoff, the third
\* joined it although it would also fit beside the first.
C21_Witness ==
    /\ pc = "assigned"
    /\ Len(Out) = 3
    /\ SameGroup(1, 2) /\ SameGroup(2, 3)
    /\ Out[1].cutoff # Out[2].cutoff
    /\ Out[2].cutoff = Out[3].cutoff
    /\ Out[1].quantity + Out[3].quantity <= FORM_CAPACITY[Out[1].form_type]

\* ------------------------------------------------------ order in a cutoff
\* C22. In the returned table the lengths of the rows of a cutoff do not
\* increase; the row with cutoff type 0 is the first row of its cutoff; and
\* of the rows of the cutoff that have its greatest length, it is the one
\* that stood first in the input.
C22_ReferenceIsFirstRow ==
    pc = "assigned" =>
        \A c \in CutoffIds :
            /\ \A i, j \in Members(c) : i < j => Out[i].length_m >= Out[j].length_m
            /\ \A i \in Members(c) :
                   /\ Out[i].cutoff_type = 0 <=> i = FirstMember(c)
                   /\ (i # FirstMember(c) /\ Out[i].length_m = Out[FirstMember(c)].length_m) =>
                          new_rows[FirstMember(c)].index < new_rows[i].index

\* A cutoff whose longer row stood after its shorter row in the input.
C22_Witness ==
    /\ pc = "assigned"
    /\ \E c \in CutoffIds : \E i, j \in Members(c) :
           /\ i < j
           /\ Out[i].length_m > Out[j].length_m
           /\ new_rows[i].index > new_rows[j].index
           /\ Out[i].cutoff_type = 0

\* ------------------------------------------------------------ frame effect
\* The frame the ingestion step returned for the arguments of the call
Ingested ==
    IF file_extension = ".txt" THEN parse_txt_file(content).df
    ELSE parse_xlsx_file(sheet_columns, sheet).df

\* C23. assign_cutoffs leaves its input unchanged: once it has returned or
\* raised, the frame that was passed to it is the frame the ingestion step
\* built (the same records, in the same order, with the same values), and
\* neither the frame nor a record of it has a cutoff or cutoff type column.
C23_InputUnchanged ==
    (~df.none /\ pc \notin {"start", "parsed"}) =>
        /\ df = Ingested
        /\ {"cutoff", "cutoff_type"} \cap df.columns = {}
        /\ \A i \in 1..Len(df.rows) : {"cutoff", "cutoff_type"} \cap DOMAIN df.rows[i] = {}

\* assign_cutoffs returned a table whose rows are in another order than the
\* rows of its input.
C23_Witness ==
    /\ pc = "assigned"
    /\ Len(df.rows) >= 2
    /\ sort_values(df.rows) # df.rows
    /\ \E i \in 1..Len(Out) : Out[i].cutoff = 2

====
